---- MODULE Spec2Model ----
(***************************************************************************)
(* Fail-closed pipeline runner: the event log, the run context, the step   *)
(* executor, the pipeline executor (execute / resume) and the              *)
(* reconstructor with its resume guard.                                    *)
(*                                                                         *)
(* Granularity: one action is one code segment that ends where the next    *)
(* event is appended or where the step callable is invoked.  An action     *)
(* therefore consists of one EventLog.append followed by the in-memory     *)
(* writes the code performs up to the next append.  A process that dies    *)
(* loses the context and keeps the log, so these are exactly the points    *)
(* at which an interruption can be told apart.                             *)
(*                                                                         *)
(* Scope: a run directory holds one run (start is called once, on an       *)
(* empty log), and the reconstructor initialises the context from the      *)
(* pipeline the executor runs.  resume() may be handed any reconstructed   *)
(* context, with or without the resume guard in front of it.               *)
(*                                                                         *)
(* Spec is the runner with raising callables, SpecKill adds a kill between *)
(* any two appends, SpecRestart a second start on a used run directory,    *)
(* SpecLog the readers of the log, SpecManual is a pipeline with a         *)
(* manual-gated step, SpecMissing pipelines with a step that has no        *)
(* callable, SpecCalls applies the pure functions of the library to all    *)
(* their inputs, and SpecReader is one writer of the log file with a       *)
(* reader that runs while it writes.                                       *)
(***************************************************************************)
EXTENDS Integers, Sequences, FiniteSets, TLC

\* ----------------------------------------------------------------- bounds

\* Largest max_retries a step definition of the model carries.
MaxRetries == 1

\* Number of interruptions (callable raising, process kill) in one behaviour.
MaxCrashes == 1

\* Number of reconstructions (each possibly followed by a resume).
MaxResumes == 1

\* ------------------------------------------------------------ vocabulary

Null == "none"

RunStates ==
    {"created", "preflight_validated", "executing", "blocked", "failed",
     "succeeded", "rolled_back"}

StepStates ==
    {"pending", "running", "succeeded", "failed", "compensated", "skipped"}

ErrorClass ==
    {"transient_io", "contract_input_missing", "hard_gate_failed",
     "validation_failed", "unknown"}

\* The pipeline: three steps, as in the pipelines of the test suite.
order == <<"step_1", "step_2", "step_3">>

StepIds == {order[i] : i \in 1..Len(order)}

\* A step id no pipeline declares (an explicit resume start step may carry it).
UnknownStep == "step_x"

run_id == "run_123"

\* retry_classes of a step definition: the dataclass default.
RetryClassChoices == {{"transient_io"}}

\* The step definitions a pipeline of the model is made of: a plain step or a
\* hard gate, not manual-gated (the default), each with max_retries =
\* MaxRetries and the default retry class.
StepDefinition ==
    [is_hard_gate : BOOLEAN, is_manual_gated : {FALSE},
     max_retries : {MaxRetries}, retry_classes : RetryClassChoices]

\* What a step callable hands back when it fails: an error class, or none
\* (which execute_step reads as UNKNOWN).
CallableErrors == {"transient_io", Null}

\* ------------------------------------------------------------- variables

VARIABLES
    steps,            \* PipelineDAG.steps: step_id -> StepDefinition
    step_functions,   \* the step ids that have a registered callable
    log,              \* events.jsonl, one record per line
    ctx,              \* the RunContext of the running client (NoCtx: none)
    pc,               \* where the client is
    mode,             \* "execute" or "resume": which walk of the DAG runs
    idx,              \* position of the walk in order
    start_from,       \* resume's start_from argument
    entry,            \* what resume() was entered with
    crashes,
    resumes,
    call,             \* the last call of a function of the library, if any
    writing           \* the line that is only partly in the file, if any

vars ==
    <<steps, step_functions, log, ctx, pc, mode, idx, start_from, entry,
      crashes, resumes, call, writing>>

\* --------------------------------------------------------------- helpers

IndexOf(step_id) == CHOOSE i \in 1..Len(order) : order[i] = step_id

\* PipelineDAG.get_upstream_steps
get_upstream_steps(step_id) ==
    IF step_id \in StepIds
    THEN {order[i] : i \in 1..(IndexOf(step_id) - 1)}
    ELSE {}

\* PipelineDAG.get_downstream_steps
get_downstream_steps(step_id) ==
    IF step_id \in StepIds
    THEN {order[i] : i \in (IndexOf(step_id) + 1)..Len(order)}
    ELSE {}

\* ---------------------------------------------------------- state tables

RunTRANSITIONS ==
    [s \in RunStates |->
        CASE s = "created" -> {"preflight_validated", "failed"}
          [] s = "preflight_validated" -> {"executing", "failed"}
          [] s = "executing" -> {"blocked", "failed", "succeeded"}
          [] s = "blocked" -> {"executing", "failed", "rolled_back"}
          [] s = "failed" -> {"rolled_back"}
          [] s = "succeeded" -> {}
          [] s = "rolled_back" -> {}]

StepTRANSITIONS ==
    [s \in StepStates |->
        CASE s = "pending" -> {"running", "skipped"}
          [] s = "running" -> {"succeeded", "failed"}
          [] s = "failed" -> {"running", "compensated"}
          [] s = "succeeded" -> {}
          [] s = "compensated" -> {}
          [] s = "skipped" -> {}]

\* A guard that lets every run transition through.
RunCanTransitionAny(current, target) == TRUE

\* RunStateMachine.can_transition
RunCanTransition(current, target) ==
    current \in RunStates /\ target \in RunTRANSITIONS[current]

\* StepStateMachine.can_transition
StepCanTransition(current, target) ==
    current \in StepStates /\ target \in StepTRANSITIONS[current]

\* The step's policy granting one attempt more.
StepAllowsRetryInclusive(step, error_class, current_attempt) ==
    IF current_attempt > step.max_retries
    THEN FALSE
    ELSE error_class \in step.retry_classes

\* The step's policy without the test of the error class.
StepAllowsRetryAnyClass(step, error_class, current_attempt) ==
    current_attempt < step.max_retries

\* StepDefinition.allows_retry
StepAllowsRetry(step, error_class, current_attempt) ==
    IF current_attempt >= step.max_retries
    THEN FALSE
    ELSE error_class \in step.retry_classes

\* The policy without the hard-gate rule.
allows_retry_step_only(step, error_class, current_attempt) ==
    StepAllowsRetry(step, error_class, current_attempt)

\* RetryPolicy.allows_retry
allows_retry(step, error_class, current_attempt) ==
    IF step.is_hard_gate /\ error_class = "hard_gate_failed"
    THEN FALSE
    ELSE StepAllowsRetry(step, error_class, current_attempt)

\* The gate without the fail-closed rule.
can_execute_step_unblocked(step_id, completed_steps, failed_hard_gates) ==
    IF step_id \notin StepIds
    THEN [ok |-> FALSE, reason |-> "unknown"]
    ELSE IF get_upstream_steps(step_id) \ completed_steps # {}
    THEN [ok |-> FALSE, reason |-> "missing"]
    ELSE [ok |-> TRUE, reason |-> Null]

\* The gate without the upstream-completion rule.
can_execute_step_nodeps(step_id, completed_steps, failed_hard_gates) ==
    IF step_id \notin StepIds
    THEN [ok |-> FALSE, reason |-> "unknown"]
    ELSE IF get_upstream_steps(step_id) \cap failed_hard_gates # {}
    THEN [ok |-> FALSE, reason |-> "blocked"]
    ELSE [ok |-> TRUE, reason |-> Null]

\* The gate looking for missing dependencies before failed hard gates.
can_execute_step_missing_first(step_id, completed_steps, failed_hard_gates) ==
    IF step_id \notin StepIds
    THEN [ok |-> FALSE, reason |-> "unknown"]
    ELSE IF get_upstream_steps(step_id) \ completed_steps # {}
    THEN [ok |-> FALSE, reason |-> "missing"]
    ELSE IF get_upstream_steps(step_id) \cap failed_hard_gates # {}
    THEN [ok |-> FALSE, reason |-> "blocked"]
    ELSE [ok |-> TRUE, reason |-> Null]

\* PipelineDAG.can_execute_step
can_execute_step(step_id, completed_steps, failed_hard_gates) ==
    IF step_id \notin StepIds
    THEN [ok |-> FALSE, reason |-> "unknown"]
    ELSE IF get_upstream_steps(step_id) \cap failed_hard_gates # {}
    THEN [ok |-> FALSE, reason |-> "blocked"]
    ELSE IF get_upstream_steps(step_id) \ completed_steps # {}
    THEN [ok |-> FALSE, reason |-> "missing"]
    ELSE [ok |-> TRUE, reason |-> Null]

\* ---------------------------------------------------------------- events

Event(event_type, step_id, attempt, error_class, previous_state, new_state) ==
    [event_type |-> event_type, run_id |-> run_id, step_id |-> step_id,
     attempt |-> attempt, error_class |-> error_class,
     previous_state |-> previous_state, new_state |-> new_state,
     override_reason |-> Null]

run_created == Event("run.created", Null, 0, Null, Null, "created")

run_state_changed(previous_state, new_state) ==
    Event("run.state_changed", Null, 0, Null, previous_state, new_state)

\* Every step.started carries attempt 0.
step_started_first(step_id, attempt) ==
    Event("step.started", step_id, 0, Null, Null, "running")

step_started(step_id, attempt) ==
    Event("step.started", step_id, attempt, Null, Null, "running")

step_succeeded(step_id, attempt) ==
    Event("step.succeeded", step_id, attempt, Null, Null, "succeeded")

step_failed(step_id, error_class, attempt) ==
    Event("step.failed", step_id, attempt, error_class, Null, "failed")

\* step.retried carrying the attempt that failed.
step_retried_previous(step_id, attempt) ==
    Event("step.retried", step_id, attempt - 1, Null, Null, Null)

step_retried(step_id, attempt) ==
    Event("step.retried", step_id, attempt, Null, Null, Null)

gate_failed(step_id, error_class) ==
    Event("gate.failed", step_id, 0, error_class, Null, Null)

run_completed(final_state) ==
    Event("run.completed", Null, 0, Null, Null, final_state)

\* ----------------------------------------------------------- run context

NoCtx ==
    [run_state |-> Null,
     step_states |-> [s \in StepIds |-> Null],
     step_attempts |-> [s \in StepIds |-> 0],
     completed_steps |-> {},
     failed_hard_gates |-> {}]

\* RunContext(run_state=CREATED) followed by initialize_steps
NewCtx ==
    [run_state |-> "created",
     step_states |-> [s \in StepIds |-> "pending"],
     step_attempts |-> [s \in StepIds |-> 0],
     completed_steps |-> {},
     failed_hard_gates |-> {}]

\* RunContext.can_run_step
can_run_step(c, step_id) ==
    can_execute_step(step_id, c.completed_steps, c.failed_hard_gates)

\* ------------------------------------------------------- reconstruction

\* A replay of step.succeeded that forgets the completed set.
apply_step_succeeded_state_only(c, e) ==
    [c EXCEPT !.step_states[e.step_id] = "succeeded"]

\* RunReconstructor._apply_event, the step.succeeded branch
apply_step_succeeded(c, e) ==
    [c EXCEPT !.step_states[e.step_id] = "succeeded",
              !.completed_steps = @ \cup {e.step_id}]

\* RunReconstructor._apply_event
ApplyEvent(c, e) ==
    CASE e.event_type = "run.state_changed" ->
            [c EXCEPT !.run_state = e.new_state]
      [] e.event_type = "run.completed" ->
            [c EXCEPT !.run_state = e.new_state]
      [] e.event_type = "step.started" ->
            [c EXCEPT !.step_states[e.step_id] = "running",
                      !.step_attempts[e.step_id] = e.attempt]
      [] e.event_type = "step.succeeded" -> apply_step_succeeded(c, e)
      [] e.event_type = "step.failed" ->
            [c EXCEPT !.step_states[e.step_id] = "failed"]
      [] e.event_type = "gate.failed" ->
            [c EXCEPT !.failed_hard_gates = @ \cup {e.step_id}]
      [] e.event_type = "step.retried" ->
            [c EXCEPT !.step_attempts[e.step_id] = e.attempt,
                      !.step_states[e.step_id] = "pending"]
      [] OTHER -> c

RECURSIVE Replay(_, _, _)
Replay(c, events, i) ==
    IF i > Len(events) THEN c ELSE Replay(ApplyEvent(c, events[i]), events, i + 1)

\* RunReconstructor.reconstruct: NoCtx stands for the ResumeError it raises
reconstruct(events) ==
    IF events = <<>> \/ events[1].event_type # "run.created"
    THEN NoCtx
    ELSE Replay(NewCtx, events, 1)

\* The guard refusing every context that holds a failed hard gate.
can_resume_gates_first(c) ==
    IF c.run_state \in {"succeeded", "rolled_back"} THEN FALSE
    ELSE IF c.failed_hard_gates # {} THEN FALSE
    ELSE c.run_state \in {"failed", "blocked", "created",
                          "preflight_validated", "executing"}

\* ResumeGuard.can_resume
can_resume(c) ==
    IF c.run_state \in {"succeeded", "rolled_back"} THEN FALSE
    ELSE IF c.run_state = "failed" THEN c.failed_hard_gates = {}
    ELSE IF c.run_state = "blocked" THEN TRUE
    ELSE c.run_state \in {"created", "preflight_validated", "executing"}

\* ResumeGuard.RESUMABLE_STEP_STATES
RESUMABLE_STEP_STATES == {"pending", "failed"}

\* ResumeGuard.get_resume_point: the loop passes over SUCCEEDED and SKIPPED
\* steps, returns the first step in a resumable state, and passes over a
\* step in any other state as well.
get_resume_point(c) ==
    LET hits == {i \in 1..Len(order) :
                    c.step_states[order[i]] \in RESUMABLE_STEP_STATES}
    IN  IF hits = {}
        THEN Null
        ELSE order[CHOOSE i \in hits : \A j \in hits : i <= j]

\* ResumeGuard.validate_resume: what it raises, if anything
validate_resume(c) == IF can_resume(c) THEN Null ELSE "ResumeError"

\* No function of the library has been called.
NoCall == [op |-> Null]

\* ------------------------------------------------------------------ Init

Init ==
    /\ steps \in [StepIds -> StepDefinition]
    /\ step_functions \in {StepIds} \cup {StepIds \ {s} : s \in StepIds}
    /\ log = <<>>
    /\ ctx = NoCtx
    /\ pc = "idle"
    /\ mode = Null
    /\ idx = 0
    /\ start_from = Null
    /\ entry = [bad |-> FALSE, len |-> 0]
    /\ crashes = 0
    /\ resumes = 0
    /\ call = NoCall
    /\ writing = <<>>

\* ---------------------------------------------------------------- actions

\* Where no walk is running and a client may open the log.
Stopped == {"started", "crashed", "returned", "error"}

\* Where a walk is about to append an event or waits for the callable.
InFlight ==
    {"execute_t2", "execute_step", "call", "gate_failed", "retry",
     "fail_run", "complete_run", "emit_completed", "resume_t2"}

\* resume's start_from argument: none, a step the pipeline does not declare,
\* or the middle step (which lies before, at or after the automatic start
\* point, depending on the log).
StartChoices == {Null, UnknownStep, order[2]}

NoEntry == [bad |-> FALSE, len |-> 0]

\* The walk treats every failed step as fatal for the run.
fails_run_always(step) == TRUE

\* execute / resume: "if not success: if step.is_hard_gate"
fails_run(step) == step.is_hard_gate

\* execute / resume: downstream steps still PENDING become SKIPPED
SkipDownstream(c, step_id) ==
    [c EXCEPT !.step_states =
        [s \in StepIds |->
            IF s \in get_downstream_steps(step_id) /\ @[s] = "pending"
            THEN "skipped"
            ELSE @[s]]]

\* The resume walk re-issues steps that already succeeded.
resume_skips_never(c, step_id) == FALSE

\* resume: "if ctx.step_states[step_id] == StepState.SUCCEEDED: continue"
resume_skips(c, step_id) == c.step_states[step_id] = "succeeded"

\* resume resets the attempt counter of a FAILED step with its state.
ResetFailedFromZero(c, step_id) ==
    IF c.step_states[step_id] = "failed"
    THEN [c EXCEPT !.step_states[step_id] = "pending",
                   !.step_attempts[step_id] = 0]
    ELSE c

\* resume compensates a FAILED step instead of resetting it.
ResetFailedCompensating(c, step_id) ==
    IF c.step_states[step_id] = "failed"
    THEN [c EXCEPT !.step_states[step_id] = "compensated"]
    ELSE c

\* resume: a FAILED step is reset to PENDING before it is re-issued
ResetFailed(c, step_id) ==
    IF c.step_states[step_id] = "failed"
    THEN [c EXCEPT !.step_states[step_id] = "pending"]
    ELSE c

\* resume starting from the guard's resume point instead.
AutoStartResumable(c) == get_resume_point(c)

\* resume: the first step whose state is neither SUCCEEDED nor SKIPPED
AutoStart(c) ==
    LET open == {i \in 1..Len(order) :
                    c.step_states[order[i]] \notin {"succeeded", "skipped"}}
    IN  IF open = {} THEN Null
        ELSE order[CHOOSE i \in open : \A j \in open : i <= j]

\* The loop of execute (m = "execute") or resume (m = "resume") from position
\* i with context c, up to the next call of execute_step or, past the last
\* step, up to _fail_run / _complete_run.  Nothing is appended on the way.
RECURSIVE Walk(_, _, _)
Walk(c, i, m) ==
    IF i > Len(order)
    THEN [ctx |-> c, idx |-> i,
          pc |-> IF c.failed_hard_gates # {} THEN "fail_run"
                 ELSE "complete_run"]
    ELSE IF m = "resume" /\ resume_skips(c, order[i])
    THEN Walk(c, i + 1, m)
    ELSE IF ~can_run_step(c, order[i]).ok
    THEN Walk([c EXCEPT !.step_states[order[i]] = "skipped"], i + 1, m)
    ELSE [ctx |-> IF m = "resume" THEN ResetFailed(c, order[i]) ELSE c,
          idx |-> i, pc |-> "execute_step"]

\* The walk leaves the loop at a failed step that is no hard gate.
AfterFailureBreaks(c, i, m) ==
    IF fails_run(steps[order[i]])
    THEN [ctx |-> SkipDownstream(c, order[i]), idx |-> i, pc |-> "fail_run"]
    ELSE [ctx |-> c, idx |-> Len(order) + 1, pc |-> "complete_run"]

\* The walk after execute_step returned False for order[i] with context c.
AfterFailure(c, i, m) ==
    IF fails_run(steps[order[i]])
    THEN [ctx |-> SkipDownstream(c, order[i]), idx |-> i, pc |-> "fail_run"]
    ELSE Walk(c, i + 1, m)

\* resume walking from the automatic start point whatever start_from is.
StartWalkAuto(c, sf) ==
    IF AutoStart(c) = Null
    THEN [ctx |-> c, idx |-> Len(order) + 1, pc |-> "complete_run"]
    ELSE Walk(c, IndexOf(AutoStart(c)), "resume")

\* resume: the start point, then the walk (list.index raises ValueError on
\* an undeclared step; with every step complete, _complete_run)
StartWalk(c, sf) ==
    LET s == IF sf = Null THEN AutoStart(c) ELSE sf
    IN  IF s = Null
        THEN [ctx |-> c, idx |-> Len(order) + 1, pc |-> "complete_run"]
        ELSE IF s \notin StepIds
        THEN [ctx |-> c, idx |-> 0, pc |-> "error"]
        ELSE Walk(c, IndexOf(s), "resume")

\* The client goes on from r = [ctx, idx, pc].
GoTo(r) ==
    /\ ctx' = r.ctx
    /\ idx' = r.idx
    /\ pc' = r.pc

\* The file opened for writing instead of appending.
append_truncating(event) == log' = <<event>>

\* EventLog.append: one more line at the end of the file.
append(event) == log' = Append(log, event)

\* PipelineExecutor._transition_run_state: the guard, the event, the field.
\* A refused transition raises ValueError: nothing is appended or changed.
transition_run_state(new_state, okpc) ==
    IF RunCanTransition(ctx.run_state, new_state)
    THEN /\ append(run_state_changed(ctx.run_state, new_state))
         /\ ctx' = [ctx EXCEPT !.run_state = new_state]
         /\ pc' = okpc
    ELSE /\ pc' = "error"
         /\ UNCHANGED <<log, ctx>>

\* The transition without validate_transition in front of it.
transition_then_unguarded(new_state, r) ==
    /\ append(run_state_changed(ctx.run_state, new_state))
    /\ GoTo(r)

\* _transition_run_state followed by the code up to the next append: r is
\* where the client is, with the context after the transition, once that
\* code has run.
transition_then(new_state, r) ==
    IF RunCanTransition(ctx.run_state, new_state)
    THEN /\ append(run_state_changed(ctx.run_state, new_state))
         /\ GoTo(r)
    ELSE /\ pc' = "error"
         /\ UNCHANGED <<log, ctx, idx>>

\* PipelineExecutor.start, on a new run directory
Start ==
    /\ pc = "idle"
    /\ log = <<>>
    /\ append(run_created)
    /\ ctx' = NewCtx
    /\ pc' = "started"
    /\ UNCHANGED <<writing, call, steps, step_functions, mode, idx, start_from, entry,
                   crashes, resumes>>

\* PipelineExecutor.execute: CREATED -> PREFLIGHT_VALIDATED
ExecuteEnter ==
    /\ pc = "started"
    /\ mode' = "execute"
    /\ transition_run_state("preflight_validated", "execute_t2")
    /\ UNCHANGED <<writing, call, steps, step_functions, idx, start_from, entry, crashes,
                   resumes>>

\* PipelineExecutor.execute: PREFLIGHT_VALIDATED -> EXECUTING, then the loop
ExecuteT2 ==
    /\ pc = "execute_t2"
    /\ transition_then("executing",
                       Walk([ctx EXCEPT !.run_state = "executing"], 1, "execute"))
    /\ UNCHANGED <<writing, call, steps, step_functions, mode, start_from, entry, crashes,
                   resumes>>

\* execute_step sends a missing callable through the retry policy.
ExecuteStepRetryingMissing ==
    /\ pc = "execute_step"
    /\ LET step_id == order[idx]
           attempt == ctx.step_attempts[step_id]
       IN  IF step_id \notin step_functions
           THEN /\ append(step_failed(step_id, "unknown", attempt))
                /\ IF allows_retry(steps[step_id], "unknown", attempt)
                   THEN /\ ctx' = [ctx EXCEPT !.step_attempts[step_id] = @ + 1]
                        /\ pc' = "retry"
                        /\ UNCHANGED idx
                   ELSE GoTo(AfterFailure(
                            [ctx EXCEPT !.step_states[step_id] = "failed"],
                            idx, mode))
           ELSE /\ append(step_started(step_id, attempt))
                /\ ctx' = [ctx EXCEPT !.step_states[step_id] = "running"]
                /\ pc' = "call"
                /\ UNCHANGED idx
    /\ UNCHANGED <<writing, call, steps, step_functions, mode, start_from, entry, crashes,
                   resumes>>

\* StepExecutor.execute_step up to the call of the step callable; without a
\* callable, _emit_and_fail and the return to the walk.
ExecuteStep ==
    /\ pc = "execute_step"
    /\ LET step_id == order[idx]
           attempt == ctx.step_attempts[step_id]
       IN  IF step_id \notin step_functions
           THEN /\ append(step_failed(step_id, "unknown", attempt))
                /\ GoTo(AfterFailure(
                       [ctx EXCEPT !.step_states[step_id] = "failed"],
                       idx, mode))
           ELSE /\ append(step_started(step_id, attempt))
                /\ ctx' = [ctx EXCEPT !.step_states[step_id] = "running"]
                /\ pc' = "call"
                /\ UNCHANGED idx
    /\ UNCHANGED <<writing, call, steps, step_functions, mode, start_from, entry, crashes,
                   resumes>>

\* The callable returns success: step.succeeded, the fields, the walk.
StepSucceeds ==
    /\ pc = "call"
    /\ LET step_id == order[idx]
           attempt == ctx.step_attempts[step_id]
       IN  /\ append(step_succeeded(step_id, attempt))
           /\ GoTo(Walk([ctx EXCEPT !.step_states[step_id] = "succeeded",
                                    !.completed_steps = @ \cup {step_id}],
                        idx + 1, mode))
    /\ UNCHANGED <<writing, call, steps, step_functions, mode, start_from, entry, crashes,
                   resumes>>

\* The callable returns failure with error class ec (possibly none).
StepFails(ec) ==
    /\ pc = "call"
    /\ LET step_id == order[idx]
           step == steps[step_id]
           attempt == ctx.step_attempts[step_id]
           error_class == IF ec = Null THEN "unknown" ELSE ec
       IN  /\ append(step_failed(step_id, error_class, attempt))
           /\ IF step.is_hard_gate
              THEN /\ pc' = "gate_failed"
                   /\ UNCHANGED <<ctx, idx>>
              ELSE IF allows_retry(step, error_class, attempt)
              THEN /\ ctx' = [ctx EXCEPT !.step_attempts[step_id] = @ + 1]
                   /\ pc' = "retry"
                   /\ UNCHANGED idx
              ELSE GoTo(AfterFailure(
                       [ctx EXCEPT !.step_states[step_id] = "failed"],
                       idx, mode))
    /\ UNCHANGED <<writing, call, steps, step_functions, mode, start_from, entry, crashes,
                   resumes>>

\* The process is gone: the context is lost, the log stays.
Interrupted ==
    /\ crashes < MaxCrashes
    /\ crashes' = crashes + 1
    /\ pc' = "crashed"
    /\ ctx' = NoCtx
    /\ mode' = Null
    /\ idx' = 0
    /\ start_from' = Null
    /\ entry' = NoEntry
    /\ UNCHANGED <<writing, call, steps, step_functions, log, resumes>>

\* The callable raises: the exception unwinds execute / resume.
StepRaises ==
    /\ pc = "call"
    /\ Interrupted

\* execute_step, hard gate: gate.failed, failed_hard_gates, FAILED, return
EmitGateFailed ==
    /\ pc = "gate_failed"
    /\ LET step_id == order[idx]
           error_class == log[Len(log)].error_class
       IN  /\ append(gate_failed(step_id, error_class))
           /\ GoTo(AfterFailure(
                  [ctx EXCEPT !.failed_hard_gates = @ \cup {step_id},
                              !.step_states[step_id] = "failed"],
                  idx, mode))
    /\ UNCHANGED <<writing, call, steps, step_functions, mode, start_from, entry, crashes,
                   resumes>>

\* The retry calling the callable again without a new step.started.
EmitRetriedUnstarted ==
    /\ pc = "retry"
    /\ LET step_id == order[idx]
       IN  append(step_retried(step_id, ctx.step_attempts[step_id]))
    /\ pc' = "call"
    /\ UNCHANGED <<writing, call, steps, step_functions, ctx, mode, idx, start_from, entry,
                   crashes, resumes>>

\* execute_step, retry: step.retried with the new attempt, backoff, re-entry
EmitRetried ==
    /\ pc = "retry"
    /\ LET step_id == order[idx]
       IN  append(step_retried(step_id, ctx.step_attempts[step_id]))
    /\ pc' = "execute_step"
    /\ UNCHANGED <<writing, call, steps, step_functions, ctx, mode, idx, start_from, entry,
                   crashes, resumes>>

\* _fail_run closing the run without the transition to FAILED.
FailRunUnlogged ==
    /\ pc = "fail_run"
    /\ append(run_completed("failed"))
    /\ ctx' = [ctx EXCEPT !.run_state = "failed"]
    /\ pc' = "returned"
    /\ UNCHANGED <<writing, call, steps, step_functions, mode, idx, start_from, entry,
                   crashes, resumes>>

\* PipelineExecutor._fail_run up to its first append
FailRun ==
    /\ pc = "fail_run"
    /\ IF ctx.run_state # "failed"
       THEN transition_run_state("failed", "emit_completed")
       ELSE /\ append(run_completed("failed"))
            /\ pc' = "returned"
            /\ UNCHANGED ctx
    /\ UNCHANGED <<writing, call, steps, step_functions, mode, idx, start_from, entry,
                   crashes, resumes>>

\* PipelineExecutor._complete_run(SUCCEEDED) up to its first append
CompleteRun ==
    /\ pc = "complete_run"
    /\ IF ctx.run_state # "succeeded"
       THEN transition_run_state("succeeded", "emit_completed")
       ELSE /\ append(run_completed("succeeded"))
            /\ pc' = "returned"
            /\ UNCHANGED ctx
    /\ UNCHANGED <<writing, call, steps, step_functions, mode, idx, start_from, entry,
                   crashes, resumes>>

\* _fail_run / _complete_run after the transition: run.completed, return
EmitCompleted ==
    /\ pc = "emit_completed"
    /\ append(run_completed(ctx.run_state))
    /\ pc' = "returned"
    /\ UNCHANGED <<writing, call, steps, step_functions, ctx, mode, idx, start_from, entry,
                   crashes, resumes>>

\* RunReconstructor.reconstruct by a client that holds no running walk
Reconstruct ==
    /\ pc \in Stopped
    /\ resumes < MaxResumes
    /\ resumes' = resumes + 1
    /\ ctx' = reconstruct(log)
    /\ pc' = IF reconstruct(log) = NoCtx THEN "rejected" ELSE "reconstructed"
    /\ mode' = Null
    /\ idx' = 0
    /\ start_from' = Null
    /\ entry' = NoEntry
    /\ UNCHANGED <<writing, call, steps, step_functions, log, crashes>>

\* resume_run: reconstruct, then ResumeGuard.validate_resume
ResumeRun ==
    /\ pc \in Stopped
    /\ resumes < MaxResumes
    /\ resumes' = resumes + 1
    /\ LET c == reconstruct(log)
       IN  IF c = NoCtx \/ validate_resume(c) # Null
           THEN /\ ctx' = NoCtx
                /\ pc' = "rejected"
           ELSE /\ ctx' = c
                /\ pc' = "reconstructed"
    /\ mode' = Null
    /\ idx' = 0
    /\ start_from' = Null
    /\ entry' = NoEntry
    /\ UNCHANGED <<writing, call, steps, step_functions, log, crashes>>

\* PipelineExecutor.resume(ctx, sf) up to its first append: the
\* re-transition to EXECUTING and, without one, the walk to the first step.
ResumeEnter(sf) ==
    /\ pc = "reconstructed"
    /\ mode' = "resume"
    /\ start_from' = sf
    /\ entry' = [bad |-> \/ ctx.run_state \in {"succeeded", "rolled_back"}
                         \/ ctx.failed_hard_gates # {},
                 len |-> Len(log)]
    /\ LET r == StartWalk([ctx EXCEPT !.run_state = "executing"], sf)
       IN  CASE ctx.run_state = "created" ->
                    /\ transition_run_state("preflight_validated", "resume_t2")
                    /\ UNCHANGED idx
             [] ctx.run_state = "preflight_validated" ->
                    transition_then("executing", r)
             [] ctx.run_state = "failed" ->
                    transition_then("executing", r)
             [] ctx.run_state = "blocked" ->
                    transition_then("executing", r)
             [] OTHER ->
                    /\ GoTo(StartWalk(ctx, sf))
                    /\ UNCHANGED log
    /\ UNCHANGED <<writing, call, steps, step_functions, crashes, resumes>>

\* resume from CREATED: the second hop, then the walk to the first step
ResumeT2 ==
    /\ pc = "resume_t2"
    /\ transition_then("executing",
                       StartWalk([ctx EXCEPT !.run_state = "executing"],
                                 start_from))
    /\ UNCHANGED <<writing, call, steps, step_functions, mode, start_from, entry, crashes,
                   resumes>>

\* The process is killed between two appends.
Kill ==
    /\ pc \in InFlight
    /\ Interrupted

Next ==
    \/ Start
    \/ ExecuteEnter
    \/ ExecuteT2
    \/ ExecuteStep
    \/ StepSucceeds
    \/ \E ec \in CallableErrors : StepFails(ec)
    \/ StepRaises
    \/ EmitGateFailed
    \/ EmitRetried
    \/ FailRun
    \/ CompleteRun
    \/ EmitCompleted
    \/ Reconstruct
    \/ ResumeRun
    \/ \E sf \in StartChoices : ResumeEnter(sf)
    \/ ResumeT2

\* Interruptions come from a raising callable only.
Spec == Init /\ [][Next]_vars

\* Interruptions also come from a process kill between two appends.
NextKill == Next \/ Kill

SpecKill == Init /\ [][NextKill]_vars

\* ---------------------------------------------------- a manual gate

\* A pipeline whose middle step is manual-gated and whose last step is a
\* hard gate, every callable registered.
InitManual ==
    /\ steps = [s \in StepIds |->
                   [is_hard_gate |-> (s = order[3]),
                    is_manual_gated |-> (s = order[2]),
                    max_retries |-> MaxRetries,
                    retry_classes |-> {"transient_io"}]]
    /\ step_functions = StepIds
    /\ log = <<>>
    /\ ctx = NoCtx
    /\ pc = "idle"
    /\ mode = Null
    /\ idx = 0
    /\ start_from = Null
    /\ entry = NoEntry
    /\ crashes = 0
    /\ resumes = 0
    /\ call = NoCall
    /\ writing = <<>>

SpecManual == InitManual /\ [][Next]_vars

\* ------------------------------------------------ a second start

\* The run identifiers a client passes to start.
RunIds == {run_id, "run_456"}

\* PipelineExecutor.start(id) by a client that holds no running walk, on a
\* run directory whose log already holds a run: start looks at neither the
\* log nor the identifier it carries.
Restart ==
    /\ pc \in Stopped
    /\ log # <<>>
    /\ \E id \in RunIds : append([run_created EXCEPT !.run_id = id])
    /\ ctx' = NewCtx
    /\ pc' = "restarted"
    /\ mode' = Null
    /\ idx' = 0
    /\ start_from' = Null
    /\ entry' = NoEntry
    /\ UNCHANGED <<writing, call, steps, step_functions, crashes, resumes>>

NextRestart == Next \/ Restart

SpecRestart == Init /\ [][NextRestart]_vars

\* ------------------------------------------------------ reading the log

\* The largest n a client passes to EventLog.tail.
MaxTail == 1

\* EventLog.read_all: the events of the file, in order
read_all == log

\* EventLog.tail(n): events[-n:] if events else [].  The slice starts n
\* places before the end, at the first event when n exceeds the length,
\* and -0 is 0: it starts at the first event as well.
tail(n) ==
    LET events == read_all
        first == IF n = 0 \/ n > Len(events) THEN 1 ELSE Len(events) - n + 1
    IN  IF events = <<>> THEN <<>> ELSE SubSeq(events, first, Len(events))

\* The last position of events that holds one of the event types, 0 if none.
LastOf(events, types, step_id) ==
    LET at == {i \in 1..Len(events) :
                  /\ events[i].event_type \in types
                  /\ events[i].step_id = step_id}
    IN  IF at = {} THEN 0 ELSE CHOOSE i \in at : \A j \in at : j <= i

\* sum(s.attempts for s in summary.steps)
RECURSIVE SumAttempts(_, _)
SumAttempts(summaries, todo) ==
    IF todo = {} THEN 0
    ELSE LET s == CHOOSE x \in todo : TRUE
         IN  summaries[s].attempts + SumAttempts(summaries, todo \ {s})

\* SummaryGenerator.generate: the final state, the retry count, the failed
\* gates and, for every step with a started / succeeded / failed event, its
\* state and attempts (the attempt of its last step.started, plus one).
generate ==
    LET events == read_all
        outcome == [e \in {"step.started", "step.succeeded", "step.failed"} |->
                       CASE e = "step.started" -> "running"
                         [] e = "step.succeeded" -> "succeeded"
                         [] e = "step.failed" -> "failed"]
        reported == {s \in StepIds : LastOf(events, DOMAIN outcome, s) > 0}
        final == LastOf(events, {"run.state_changed", "run.completed"}, Null)
        summaries ==
            [s \in reported |->
                [state |->
                    outcome[events[LastOf(events, DOMAIN outcome,
                                          s)].event_type],
                 attempts |->
                    LET st == LastOf(events, {"step.started"}, s)
                    IN  (IF st = 0 THEN 0 ELSE events[st].attempt) + 1]]
    IN  IF events = <<>>
        THEN [raised |-> "ValueError"]
        ELSE [raised |-> Null,
              run_id |-> events[1].run_id,
              final_state |-> IF final = 0 THEN "created"
                              ELSE events[final].new_state,
              total_retries |->
                  Cardinality({i \in 1..Len(events) :
                                  events[i].event_type = "step.retried"}),
              failed_hard_gates |->
                  {events[i].step_id : i \in
                      {j \in 1..Len(events) :
                          events[j].event_type = "gate.failed"}},
              total_attempts |-> SumAttempts(summaries, reported),
              steps |-> summaries]

\* EventLog.read_all parses every line of the file with json.loads: a line
\* that is only partly in the file is no JSON document and the read raises.
read_all_raises == IF writing # <<>> THEN "JSONDecodeError" ELSE Null

\* A client that holds no running walk reads the whole log.
CallReadAll ==
    /\ pc \notin InFlight
    /\ call' = [op |-> "read_all", result |-> read_all,
                raised |-> read_all_raises]
    /\ UNCHANGED <<writing, steps, step_functions, log, ctx, pc, mode, idx, start_from,
                   entry, crashes, resumes>>

\* A client reads the last n events.
CallTail ==
    /\ pc \notin InFlight
    /\ \E n \in 0..MaxTail :
           call' = [op |-> "tail", n |-> n, result |-> tail(n),
                    raised |-> read_all_raises]
    /\ UNCHANGED <<writing, steps, step_functions, log, ctx, pc, mode, idx, start_from,
                   entry, crashes, resumes>>

\* A client asks for the summary of the run.
CallSummary ==
    /\ pc \notin InFlight
    /\ call' = [op |-> "summary", result |-> generate]
    /\ UNCHANGED <<writing, steps, step_functions, log, ctx, pc, mode, idx, start_from,
                   entry, crashes, resumes>>

\* One pipeline with a hard gate in the middle, every callable registered.
InitLog ==
    /\ Init
    /\ steps = [s \in StepIds |->
                   [is_hard_gate |-> (s = order[2]), is_manual_gated |-> FALSE,
                    max_retries |-> MaxRetries,
                    retry_classes |-> {"transient_io"}]]
    /\ step_functions = StepIds

\* Every operation on a run directory: the runner's, a second start and the
\* readers.
NextLog ==
    \/ Next
    \/ Restart
    \/ CallReadAll
    \/ CallTail
    \/ CallSummary

SpecLog == InitLog /\ [][NextLog]_vars

\* ------------------------------------------- functions called directly

\* The step definitions RetryPolicy.allows_retry is called with.
RetrySteps ==
    [is_hard_gate : BOOLEAN, is_manual_gated : {FALSE},
     max_retries : 0..MaxRetries,
     retry_classes : SUBSET ErrorClass]

\* The contexts the resume guard is called with: every run state, every set
\* of failed hard gates.
GuardContexts ==
    {[NewCtx EXCEPT !.run_state = r, !.failed_hard_gates = f] :
        r \in RunStates, f \in SUBSET StepIds}

\* A client calls RetryPolicy.allows_retry(step, error_class, attempt).
CallAllowsRetry ==
    /\ \E step \in RetrySteps :
       \E error_class \in ErrorClass :
       \E attempt \in 0..(MaxRetries + 1) :
          call' = [op |-> "allows_retry", step |-> step,
                   error_class |-> error_class, attempt |-> attempt,
                   result |-> allows_retry(step, error_class, attempt)]
    /\ UNCHANGED <<writing, steps, step_functions, log, ctx, pc, mode, idx, start_from,
                   entry, crashes, resumes>>

\* A client calls ResumeGuard.can_resume(c) and ResumeGuard.validate_resume(c).
CallValidateResume ==
    /\ \E c \in GuardContexts :
          call' = [op |-> "validate_resume", ctx |-> c,
                   result |-> can_resume(c), raised |-> validate_resume(c)]
    /\ UNCHANGED <<writing, steps, step_functions, log, ctx, pc, mode, idx, start_from,
                   entry, crashes, resumes>>

\* One pipeline, no run: only the functions are called.
InitCalls ==
    /\ Init
    /\ steps = [s \in StepIds |->
                   [is_hard_gate |-> FALSE, is_manual_gated |-> FALSE,
                    max_retries |-> MaxRetries,
                    retry_classes |-> {"transient_io"}]]
    /\ step_functions = StepIds

\* A client calls PipelineDAG.can_execute_step(step_id, completed, failed).
CallCanExecuteStep ==
    /\ \E step_id \in StepIds \cup {UnknownStep} :
       \E completed_steps \in SUBSET StepIds :
       \E failed_hard_gates \in SUBSET StepIds :
          call' = [op |-> "can_execute_step", step_id |-> step_id,
                   completed_steps |-> completed_steps,
                   failed_hard_gates |-> failed_hard_gates,
                   result |-> can_execute_step(step_id, completed_steps,
                                               failed_hard_gates)]
    /\ UNCHANGED <<writing, steps, step_functions, log, ctx, pc, mode, idx, start_from,
                   entry, crashes, resumes>>

NextCalls ==
    \/ CallAllowsRetry
    \/ CallValidateResume
    \/ CallCanExecuteStep

SpecCalls == InitCalls /\ [][NextCalls]_vars

\* ------------------------------------------------------- the log, read

Positions == 1..Len(log)

IsStep(i, event_type, step_id) ==
    log[i].event_type = event_type /\ log[i].step_id = step_id

RunStateEvents == {"run.created", "run.state_changed", "run.completed"}

\* The run state the log shows before position i.
RunStateBefore(i) ==
    LET earlier == {j \in 1..(i - 1) : log[j].event_type \in RunStateEvents}
    IN  IF earlier = {} THEN Null
        ELSE log[CHOOSE j \in earlier : \A k \in earlier : k <= j].new_state

StepStateEvents == {"step.started", "step.succeeded", "step.failed"}

\* The state of log[i]'s step that the log shows before position i.
StepStateBefore(i) ==
    LET earlier == {j \in 1..(i - 1) :
                       /\ log[j].event_type \in StepStateEvents
                       /\ log[j].step_id = log[i].step_id}
    IN  IF earlier = {} THEN "pending"
        ELSE log[CHOOSE j \in earlier : \A k \in earlier : k <= j].new_state

HasGateFailed == \E i \in Positions : log[i].event_type = "gate.failed"

\* A step was issued twice with the same attempt: the first issue was
\* interrupted and a resume issued the step again.
Reissued ==
    \E i \in Positions : \E j \in Positions :
        /\ i < j
        /\ log[i].event_type = "step.started"
        /\ IsStep(j, "step.started", log[i].step_id)
        /\ log[j].attempt = log[i].attempt

\* A client holds a context.
Live == pc \notin {"idle", "crashed", "rejected"}

\* ------------------------------------------------------------------ C1

\* C1: fail-closed.  If the log holds gate.failed for step S, it holds no
\* step.started for a step strictly downstream of S, whatever sequence of
\* start, execute, interruption, reconstruct and resume (with or without an
\* explicit start step) produced it.
C1_FailClosed ==
    LET gates == {log[i].step_id :
                     i \in {k \in Positions : log[k].event_type = "gate.failed"}}
        closed == UNION {get_downstream_steps(g) : g \in gates}
    IN  \A j \in Positions :
            log[j].event_type = "step.started" => log[j].step_id \notin closed

\* A resume re-issued a gate that had failed, the gate then succeeded, the
\* walk went on to the steps downstream and skipped them, and resume returned.
C1_Witness ==
    /\ pc = "returned"
    /\ mode = "resume"
    /\ \E i \in Positions : \E j \in Positions :
          /\ i < j
          /\ log[i].event_type = "gate.failed"
          /\ IsStep(j, "step.succeeded", log[i].step_id)
          /\ get_downstream_steps(log[i].step_id) # {}
          /\ \A d \in get_downstream_steps(log[i].step_id) :
                ctx.step_states[d] = "skipped"

\* ------------------------------------------------------------------ C2

\* C2: upstream gating.  A step.started for step X is preceded in the log by
\* a step.succeeded for every step upstream of X.
C2_UpstreamGating ==
    \A j \in Positions :
        log[j].event_type = "step.started" =>
            \A u \in get_upstream_steps(log[j].step_id) :
                \E i \in 1..(j - 1) : IsStep(i, "step.succeeded", u)

\* A resume with an explicit start step started the last step of the DAG
\* after an interruption.
C2_Witness ==
    /\ mode = "resume"
    /\ Reissued
    /\ start_from \in StepIds
    /\ \E j \in Positions :
          /\ j > entry.len
          /\ IsStep(j, "step.started", order[Len(order)])

\* ------------------------------------------------------------------ C3

HardGateFailedInLog ==
    \E i \in Positions :
        /\ log[i].event_type = "step.failed"
        /\ steps[log[i].step_id].is_hard_gate

\* C3: execute() on a freshly started run returns FAILED if and only if a
\* hard-gate step failed during it, and SUCCEEDED otherwise, also when
\* non-hard-gate steps ended FAILED.
C3_OnlyHardGatesFailRun ==
    (pc = "returned" /\ mode = "execute") =>
        ctx.run_state = IF HardGateFailedInLog THEN "failed" ELSE "succeeded"

\* execute returned SUCCEEDED with a step FAILED after its retries ran out.
C3_Witness ==
    /\ pc = "returned"
    /\ mode = "execute"
    /\ ctx.run_state = "succeeded"
    /\ \E s \in StepIds :
          /\ ctx.step_states[s] = "failed"
          /\ steps[s].max_retries > 0
          /\ ctx.step_attempts[s] = steps[s].max_retries

\* ------------------------------------------------------------------ C4

\* C4: every run.state_changed event of the log is an edge of the run-state
\* table, and its previous_state is the new_state of the run-state event
\* before it (run.created counts as CREATED).
C4_RunTransitionLegality ==
    \A i \in Positions :
        log[i].event_type = "run.state_changed" =>
            /\ log[i].previous_state \in RunStates
            /\ log[i].new_state \in RunTRANSITIONS[log[i].previous_state]
            /\ log[i].previous_state = RunStateBefore(i)

\* A run was interrupted, resumed, and the resume logged a transition of the
\* run state before it returned.
C4_Witness ==
    /\ pc = "returned"
    /\ mode = "resume"
    /\ Reissued
    /\ \E i \in Positions :
          i > entry.len /\ log[i].event_type = "run.state_changed"

\* ------------------------------------------------------------------ C5

\* C5: for every step, its step.started / step.succeeded / step.failed
\* events, read in log order as RUNNING / SUCCEEDED / FAILED and starting
\* from PENDING, follow edges of the step-state table.
C5_StepTransitionLegality ==
    \A i \in Positions :
        log[i].event_type \in StepStateEvents =>
            log[i].new_state \in StepTRANSITIONS[StepStateBefore(i)]

\* ------------------------------------------------------------------ C6

\* C6: success is final.  After step.succeeded for step X the log holds no
\* later step.started, step.retried or step.failed for X.
C6_SuccessIsFinal ==
    \A i \in Positions : \A j \in Positions :
        (i < j /\ log[i].event_type = "step.succeeded"
               /\ log[j].step_id = log[i].step_id)
            => log[j].event_type \notin
                   {"step.started", "step.retried", "step.failed"}

\* A resume was given a start step that had already succeeded, and it has
\* appended events of later steps.
C6_Witness ==
    /\ mode = "resume"
    /\ start_from \in StepIds
    /\ \E i \in 1..entry.len : IsStep(i, "step.succeeded", start_from)
    /\ \E j \in Positions : j > entry.len /\ log[j].event_type = "step.started"

\* ------------------------------------------------------------------ C7

\* The largest attempt the log carries for step s.
LoggedAttempt(s) ==
    LET at == {log[i].attempt : i \in {j \in Positions : log[j].step_id = s}}
    IN  IF at = {} THEN 0 ELSE CHOOSE a \in at : \A b \in at : b <= a

\* C7: write-ahead ordering.  No field of the live context is ahead of the
\* log: the run state, a step's RUNNING / SUCCEEDED / FAILED state, a step's
\* attempt counter, completed_steps and failed_hard_gates only ever hold what
\* an event already in the log records.
C7_WriteAhead ==
    Live =>
        /\ ctx.run_state = RunStateBefore(Len(log) + 1)
        /\ \A s \in StepIds :
              /\ ctx.step_attempts[s] <= LoggedAttempt(s)
              /\ ctx.step_states[s] = "running" =>
                    \E i \in Positions : IsStep(i, "step.started", s)
              /\ ctx.step_states[s] = "succeeded" =>
                    \E i \in Positions : IsStep(i, "step.succeeded", s)
              /\ ctx.step_states[s] = "failed" =>
                    \E i \in Positions : IsStep(i, "step.failed", s)
        /\ \A s \in ctx.completed_steps :
              \E i \in Positions : IsStep(i, "step.succeeded", s)
        /\ \A s \in ctx.failed_hard_gates :
              \E i \in Positions : IsStep(i, "gate.failed", s)

\* ------------------------------------------------------------------ C8

C9_FailedGateBlocksResume ==
    (pc \in Stopped /\ HasGateFailed) => ~can_resume(reconstruct(log))

\* ----------------------------------------------------------------- C10

\* C10: resume() entered with a context that is SUCCEEDED or ROLLED_BACK, or
\* that has a failed hard gate, ends in an error, appends no event and
\* invokes no callable.
C10_ResumeRejectsClosedRun ==
    (mode = "resume" /\ entry.bad) =>
        /\ pc = "error"
        /\ Len(log) = entry.len

\* ----------------------------------------------------------------- C11

\* ResumeGuard.can_resume as the claim tabulates it.
ResumableByTable(c) ==
    CASE c.run_state \in {"succeeded", "rolled_back"} -> FALSE
      [] c.run_state = "failed" -> c.failed_hard_gates = {}
      [] c.run_state \in {"blocked", "created", "preflight_validated",
                          "executing"} -> TRUE

\* C11: can_resume is false for SUCCEEDED and ROLLED_BACK, for FAILED true
\* exactly when failed_hard_gates is empty, true for BLOCKED, CREATED,
\* PREFLIGHT_VALIDATED and EXECUTING; validate_resume raises ResumeError
\* exactly when can_resume is false.
C11_CanResumeTable ==
    call.op = "validate_resume" =>
        /\ call.result = ResumableByTable(call.ctx)
        /\ (call.raised = "ResumeError") = ~call.result

\* The guard was asked about an EXECUTING context that holds a failed hard
\* gate, and let it through.
C11_Witness ==
    /\ call.op = "validate_resume"
    /\ call.ctx.run_state = "executing"
    /\ call.ctx.failed_hard_gates # {}
    /\ call.result
    /\ call.raised = Null

\* ----------------------------------------------------------------- C20

\* C20: RetryPolicy.allows_retry is false for a hard gate failing with
\* HARD_GATE_FAILED, and otherwise true exactly when the error class is one
\* of the step's retry_classes and attempt < max_retries.
C20_RetryPolicy ==
    call.op = "allows_retry" =>
        call.result =
            IF call.step.is_hard_gate /\ call.error_class = "hard_gate_failed"
            THEN FALSE
            ELSE /\ call.error_class \in call.step.retry_classes
                 /\ call.attempt < call.step.max_retries

\* The policy refused a hard gate failing with HARD_GATE_FAILED although the
\* class is one of its retry_classes and attempts are left.
C20_Witness ==
    /\ call.op = "allows_retry"
    /\ call.step.is_hard_gate
    /\ call.error_class = "hard_gate_failed"
    /\ "hard_gate_failed" \in call.step.retry_classes
    /\ call.attempt < call.step.max_retries
    /\ ~call.result

\* ----------------------------------------------------------------- C12

\* The context resume() was entered with: the replay of the log as it was.
EntryCtx == reconstruct(SubSeq(log, 1, entry.len))

\* C12: resume() of a context the guard accepts with run state FAILED and
\* no failed hard gate logs run.state_changed FAILED -> EXECUTING first and
\* raises no internal error.
C12_ResumeFromFailed ==
    (/\ mode = "resume"
     /\ EntryCtx.run_state = "failed"
     /\ can_resume(EntryCtx)) =>
        /\ pc # "error"
        /\ Len(log) > entry.len
        /\ log[entry.len + 1] = run_state_changed("failed", "executing")

\* ----------------------------------------------------------------- C13

\* C13: on the context reconstructed from a reachable log,
\* get_resume_point returns the first step in DAG order that is neither
\* SUCCEEDED nor SKIPPED (none when there is no such step), the step
\* resume() starts from when it is given no start step.
C13_ResumePoint ==
    pc = "reconstructed" => get_resume_point(ctx) = AutoStart(ctx)

\* ----------------------------------------------------------------- C14

\* The positions past the entry of resume() that hold a step.started.
StartedSinceEntry ==
    {i \in (entry.len + 1)..Len(log) : log[i].event_type = "step.started"}

\* resume() was entered on a log that ends in a step.started: the callable
\* of that step raised.
ResumedAfterRaise ==
    /\ mode = "resume"
    /\ entry.len > 0
    /\ log[entry.len].event_type = "step.started"

\* C14: when the callable of step X raises, the log still ends in
\* step.started(X); its replay shows X RUNNING with that attempt, every
\* earlier step SUCCEEDED, every later step PENDING and the run EXECUTING;
\* and the first step.started resume appends is that of X with the same
\* attempt, which comes first of all when no start step is given.
C14_CrashInCallable ==
    /\ pc = "crashed" =>
          LET e == log[Len(log)]
              c == reconstruct(log)
          IN  /\ e.event_type = "step.started"
              /\ c.run_state = "executing"
              /\ c.step_states[e.step_id] = "running"
              /\ c.step_attempts[e.step_id] = e.attempt
              /\ \A i \in 1..Len(order) :
                    /\ i < IndexOf(e.step_id) =>
                          c.step_states[order[i]] = "succeeded"
                    /\ i > IndexOf(e.step_id) =>
                          c.step_states[order[i]] = "pending"
    /\ ResumedAfterRaise =>
          /\ \A i \in StartedSinceEntry :
                (\A j \in StartedSinceEntry : i <= j) =>
                    log[i] = log[entry.len]
          /\ (start_from = Null /\ Len(log) > entry.len) =>
                log[entry.len + 1] = log[entry.len]

\* ----------------------------------------------------------------- C15

\* C15: when a run whose step callable raised in run state EXECUTING is
\* resumed, the first event resume appends is a run.state_changed to
\* EXECUTING, and the next one is step.started for the interrupted step.
C15_ResumeLogsTransition ==
    (/\ ResumedAfterRaise
     /\ EntryCtx.run_state = "executing"
     /\ Len(log) > entry.len) =>
        /\ log[entry.len + 1].event_type = "run.state_changed"
        /\ log[entry.len + 1].new_state = "executing"
        /\ Len(log) > entry.len + 1 =>
              /\ log[entry.len + 2].event_type = "step.started"
              /\ log[entry.len + 2].step_id = log[entry.len].step_id

\* C15, as the executor has it: resume of a run reconstructed in run state
\* EXECUTING appends no run.state_changed to EXECUTING, and when the log
\* ended in the step.started of an interrupted step and no start step is
\* given, the first event resume appends is step.started for that step with
\* the same attempt.
C15_ResumeFromExecutingLogsNoTransition ==
    (mode = "resume" /\ EntryCtx.run_state = "executing") =>
        /\ \A i \in (entry.len + 1)..Len(log) :
              ~(/\ log[i].event_type = "run.state_changed"
                /\ log[i].new_state = "executing")
        /\ (/\ ResumedAfterRaise
            /\ start_from = Null
            /\ Len(log) > entry.len) =>
                log[entry.len + 1] = log[entry.len]

\* The callable of step_2 raised, the run was resumed from EXECUTING with no
\* start step, and resume ran to its return.
C15_Witness ==
    /\ ResumedAfterRaise
    /\ EntryCtx.run_state = "executing"
    /\ start_from = Null
    /\ log[entry.len].step_id = "step_2"
    /\ Len(log) > entry.len
    /\ log[entry.len + 1] = log[entry.len]
    /\ pc = "returned"

\* ----------------------------------------------------------------- C16

\* C16: reconstruct-and-resume cycles on an interrupted run with no failed
\* hard gate reach a log that ends in run.completed with SUCCEEDED or FAILED.
\* A cycle that is rejected leaves the log as it is, so every later cycle is
\* rejected the same way: the claim needs that no interrupted run without a
\* failed hard gate is rejected before its log ends in run.completed.
C16_ResumeConverges ==
    (/\ pc = "rejected"
     /\ reconstruct(log) # NoCtx
     /\ reconstruct(log).failed_hard_gates = {}) =>
        /\ log[Len(log)].event_type = "run.completed"
        /\ log[Len(log)].new_state \in {"succeeded", "failed"}

\* ----------------------------------------------------------------- C17

\* The new_state of the last run.state_changed of the log, if any.
LastRunStateChanged ==
    LET changes == {i \in Positions : log[i].event_type = "run.state_changed"}
    IN  IF changes = {} THEN Null
        ELSE log[CHOOSE i \in changes : \A j \in changes : j <= i].new_state

\* C17: when execute() or resume() has returned normally, the last event of
\* the log is run.completed, its new_state is the returned run state, that
\* state is SUCCEEDED or FAILED, and it is the new_state of the last
\* run.state_changed.
C17_CompletionEvent ==
    pc = "returned" =>
        /\ log[Len(log)].event_type = "run.completed"
        /\ log[Len(log)].new_state = ctx.run_state
        /\ ctx.run_state \in {"succeeded", "failed"}
        /\ LastRunStateChanged = ctx.run_state

\* resume() returned FAILED after an interrupted hard gate was run again and
\* failed.
C17_Witness ==
    /\ pc = "returned"
    /\ mode = "resume"
    /\ ctx.run_state = "failed"
    /\ Reissued

\* ----------------------------------------------------------------- C18

\* C18: in every log that operations of the runner on one run directory
\* produce, the first event is run.created, no later event is, and every
\* event carries the run_id of the first.
C18_SingleRunHeader ==
    log # <<>> =>
        /\ log[1].event_type = "run.created"
        /\ \A i \in Positions :
              /\ i > 1 => log[i].event_type # "run.created"
              /\ log[i].run_id = log[1].run_id

\* ----------------------------------------------------------------- C19

\* C19: every operation (start, execute, each step attempt, resume,
\* reconstruct, summary, tail, read_all) leaves the events
\* already logged as a prefix of the log: the log never shrinks and no
\* earlier event changes.
C19_AppendOnly ==
    [][/\ Len(log') >= Len(log)
       /\ SubSeq(log', 1, Len(log)) = log]_vars

\* The whole log was read, and a resume has since run to its return and
\* made the log longer than what was read.
C19_Witness ==
    /\ call.op = "read_all"
    /\ call.result # <<>>
    /\ Len(call.result) < Len(log)
    /\ mode = "resume"
    /\ Len(log) > entry.len
    /\ pc = "returned"

\* ----------------------------------------------------------------- C21

\* C21: when a hard-gate step with max_retries > 0 and TRANSIENT_IO among
\* its retry_classes fails with TRANSIENT_IO at an attempt below
\* max_retries, the next event is step.retried for the step, not
\* gate.failed.
C21_HardGateRetriesTransient ==
    \A i \in Positions :
        (/\ log[i].event_type = "step.failed"
         /\ log[i].error_class = "transient_io"
         /\ steps[log[i].step_id].is_hard_gate
         /\ "transient_io" \in steps[log[i].step_id].retry_classes
         /\ log[i].attempt < steps[log[i].step_id].max_retries
         /\ i < Len(log)) =>
            /\ log[i + 1].event_type = "step.retried"
            /\ log[i + 1].step_id = log[i].step_id

\* ----------------------------------------------------------------- C22

\* The positions of the log that hold an event of the type for the step.
EventsOf(event_type, step_id) ==
    {i \in Positions : IsStep(i, event_type, step_id)}

\* The first execute, not interrupted so far, is done with step s, which is
\* no hard gate, has a callable, and failed with a retriable class each time.
ExhaustedRetries(s) ==
    /\ mode = "execute"
    /\ ~steps[s].is_hard_gate
    /\ s \in step_functions
    /\ ctx.step_states[s] = "failed"
    /\ \A i \in EventsOf("step.failed", s) :
          log[i].error_class \in steps[s].retry_classes

\* C22: a non-hard-gate step with max_retries = m whose callable always
\* fails with a retriable class gets, in a crash-free execute, exactly m+1
\* step.started with attempts 0..m, exactly m step.retried with attempts
\* 1..m, and a last event step.failed; the step is left FAILED.
C22_RetryExhaustion ==
    \A s \in StepIds :
        ExhaustedRetries(s) =>
            LET m == steps[s].max_retries
                started == EventsOf("step.started", s)
                retried == EventsOf("step.retried", s)
                all == {i \in Positions : log[i].step_id = s}
            IN  /\ Cardinality(started) = m + 1
                /\ {log[i].attempt : i \in started} = 0..m
                /\ Cardinality(retried) = m
                /\ {log[i].attempt : i \in retried} = 1..m
                /\ \A i \in all :
                      (\A j \in all : j <= i) =>
                          log[i].event_type = "step.failed"

\* The second step used up its retries in a run that went on to return.
C22_Witness ==
    /\ ExhaustedRetries("step_2")
    /\ steps["step_2"].max_retries > 0
    /\ EventsOf("step.retried", "step_2") # {}
    /\ pc = "returned"

\* ----------------------------------------------------------------- C23

\* In the first execute, not interrupted so far, the callable of step s has
\* failed, the first time with a class that is not in its retry_classes.
FailedNonRetriable(s) ==
    /\ mode = "execute"
    /\ s \in step_functions
    /\ EventsOf("step.failed", s) # {}
    /\ \A i \in EventsOf("step.failed", s) :
          (\A j \in EventsOf("step.failed", s) : i <= j) =>
              log[i].error_class \notin steps[s].retry_classes

\* C23: when a step's callable fails with a class that is not in the step's
\* retry_classes, whatever max_retries is, the log holds exactly one
\* step.started (one invocation of the callable) and one step.failed for
\* the step, and no step.retried.
C23_NonRetriableNeverRetries ==
    \A s \in StepIds :
        FailedNonRetriable(s) =>
            /\ Cardinality(EventsOf("step.started", s)) = 1
            /\ Cardinality(EventsOf("step.failed", s)) = 1
            /\ EventsOf("step.retried", s) = {}

\* A step that may retry failed with UNKNOWN and the run went on to return.
C23_Witness ==
    /\ FailedNonRetriable("step_2")
    /\ ~steps["step_2"].is_hard_gate
    /\ steps["step_2"].max_retries > 0
    /\ pc = "returned"

\* ----------------------------------------------------------------- C24

\* C24: retry accounting.  In every log, also one that a kill, a raising
\* callable and a resume extended, the number of step.retried events of a
\* step is the largest attempt any event of the step carries.
C24_RetryAccounting ==
    \A s \in StepIds :
        Cardinality(EventsOf("step.retried", s)) = LoggedAttempt(s)

\* A step was retried, its retry was interrupted, and a resume issued the
\* same attempt again.
C24_Witness ==
    /\ Reissued
    /\ mode = "resume"
    /\ \E s \in StepIds :
          /\ EventsOf("step.retried", s) # {}
          /\ \E i \in StartedSinceEntry :
                log[i].step_id = s /\ log[i].attempt > 0

\* ----------------------------------------------------------------- C25

\* C25: a manual-gated step is not started automatically: every
\* step.started of such a step comes after a run.state_changed to BLOCKED.
C25_ManualGateBlocks ==
    \A i \in Positions :
        (/\ log[i].event_type = "step.started"
         /\ steps[log[i].step_id].is_manual_gated) =>
            \E j \in 1..(i - 1) :
                /\ log[j].event_type = "run.state_changed"
                /\ log[j].new_state = "blocked"

\* ----------------------------------------------------------------- C26

\* C26: a failing hard gate gets exactly one gate.failed, appended before
\* the run.state_changed to FAILED: every step.failed of a hard gate is
\* followed at once by the gate.failed of that step, and no
\* run.state_changed to FAILED comes without an earlier gate.failed.
C26_GateEventBeforeRunFailure ==
    \A i \in Positions :
        /\ (/\ log[i].event_type = "step.failed"
            /\ steps[log[i].step_id].is_hard_gate
            /\ i < Len(log)) =>
                IsStep(i + 1, "gate.failed", log[i].step_id)
        /\ (/\ log[i].event_type = "run.state_changed"
            /\ log[i].new_state = "failed") =>
                \E j \in 1..(i - 1) : log[j].event_type = "gate.failed"

\* ----------------------------------------------------------------- C27

\* The step.started, step.failed, step.retried and step.succeeded events of
\* step s, in log order.
StepEvents(s) ==
    LET OfStep(e) ==
            /\ e.step_id = s
            /\ e.event_type \in {"step.started", "step.failed",
                                 "step.retried", "step.succeeded"}
    IN  SelectSeq(log, OfStep)

\* C27: in the log of a crash-free run that has returned, the events of
\* each step that has any are one step.started, then (step.failed,
\* step.retried) pairs, then one terminal step.succeeded or step.failed.
C27_PerStepShape ==
    (mode = "execute" /\ pc = "returned") =>
        \A s \in StepIds :
            LET q == StepEvents(s)
            IN  q # <<>> =>
                    /\ Len(q) >= 2
                    /\ q[1].event_type = "step.started"
                    /\ q[Len(q)].event_type \in {"step.succeeded",
                                                 "step.failed"}
                    /\ \A k \in 2..(Len(q) - 1) :
                          q[k].event_type =
                              IF k % 2 = 0 THEN "step.failed"
                              ELSE "step.retried"

\* C27, as the executor has it: in a crash-free run the events of a step
\* with a callable are attempts 0, 1, ... in order, each opened by its own
\* step.started; every attempt but the last is step.started, step.failed,
\* step.retried, the last one is step.started and, once the callable is
\* back, one terminal step.succeeded or step.failed with nothing after it.
\* A step without a callable has a lone step.failed.
C27_PerAttemptShape ==
    mode = "execute" =>
        \A s \in StepIds :
            LET q == StepEvents(s)
            IN  IF s \notin step_functions
                THEN q = <<>> \/ (Len(q) = 1 /\ q[1].event_type = "step.failed")
                ELSE /\ q # <<>> =>
                            /\ q[1].event_type = "step.started"
                            /\ q[1].attempt = 0
                     /\ \A k \in 1..(Len(q) - 1) :
                           CASE q[k].event_type = "step.started" ->
                                    /\ q[k + 1].event_type \in
                                           {"step.succeeded", "step.failed"}
                                    /\ q[k + 1].attempt = q[k].attempt
                             [] q[k].event_type = "step.failed" ->
                                    /\ q[k + 1].event_type = "step.retried"
                                    /\ q[k + 1].attempt = q[k].attempt + 1
                             [] q[k].event_type = "step.retried" ->
                                    /\ q[k + 1].event_type = "step.started"
                                    /\ q[k + 1].attempt = q[k].attempt
                             [] OTHER -> FALSE
                     /\ (pc = "returned" /\ q # <<>>) =>
                            q[Len(q)].event_type \in {"step.succeeded",
                                                      "step.failed"}

\* A crash-free run returned after a step was retried and then succeeded:
\* the step has two step.started.
C27_Witness ==
    /\ mode = "execute"
    /\ pc = "returned"
    /\ \E s \in StepIds :
          /\ Len(StepEvents(s)) = 5
          /\ StepEvents(s)[5].event_type = "step.succeeded"

\* ----------------------------------------------------------------- C28

\* The steps before step_id in the order of the pipeline.
Before(step_id) == {order[i] : i \in 1..(IndexOf(step_id) - 1)}

\* C28: can_execute_step rejects an undeclared id as unknown; else rejects
\* as blocked when a step before it is in the failed set, whatever the
\* completed set holds; else rejects as missing when a step before it is
\* not in the completed set; else permits.  Whether the step itself is in
\* either set changes nothing.
C28_GateFunction ==
    call.op = "can_execute_step" =>
        LET s == call.step_id
            done == call.completed_steps
            failed == call.failed_hard_gates
        IN  /\ call.result =
                  CASE s \notin StepIds ->
                           [ok |-> FALSE, reason |-> "unknown"]
                    [] s \in StepIds /\ Before(s) \cap failed # {} ->
                           [ok |-> FALSE, reason |-> "blocked"]
                    [] /\ s \in StepIds
                       /\ Before(s) \cap failed = {}
                       /\ ~(Before(s) \subseteq done) ->
                           [ok |-> FALSE, reason |-> "missing"]
                    [] OTHER -> [ok |-> TRUE, reason |-> Null]
            /\ call.result = can_execute_step(s, done \ {s}, failed \ {s})
            /\ call.result = can_execute_step(s, done \cup {s},
                                              failed \cup {s})

\* The gate was asked about the last step with the first step failed and
\* nothing completed, and answered blocked rather than missing.
C28_Witness ==
    /\ call.op = "can_execute_step"
    /\ call.step_id = order[Len(order)]
    /\ call.failed_hard_gates = {order[1]}
    /\ call.completed_steps = {}
    /\ call.result.reason = "blocked"

\* ----------------------------------------------------------------- C29

\* The steps resume() has issued or failed for want of a callable.
ExecutedSinceEntry ==
    {log[i].step_id : i \in
        {j \in (entry.len + 1)..Len(log) :
            log[j].event_type \in {"step.started", "step.failed"}}}

\* C29: resume(start_from = s) appends no step.started for a step before s
\* and none for a step that was SUCCEEDED when it was entered; and when it
\* has returned, every step from s on that was not SUCCEEDED has been
\* executed, unless the gate refused it and it was skipped.
C29_ExplicitStart ==
    (mode = "resume" /\ start_from \in StepIds) =>
        /\ \A i \in StartedSinceEntry :
              /\ IndexOf(log[i].step_id) >= IndexOf(start_from)
              /\ EntryCtx.step_states[log[i].step_id] # "succeeded"
        /\ pc = "returned" =>
              \A k \in IndexOf(start_from)..Len(order) :
                  \/ EntryCtx.step_states[order[k]] = "succeeded"
                  \/ order[k] \in ExecutedSinceEntry
                  \/ /\ ctx.step_states[order[k]] = "skipped"
                     /\ ~can_run_step(ctx, order[k]).ok

\* resume was given the middle step, whose callable had raised: it started
\* the step again and the one after it, and returned.
C29_Witness ==
    /\ mode = "resume"
    /\ start_from = order[2]
    /\ EntryCtx.step_states[order[2]] = "running"
    /\ {order[2], order[3]} \subseteq ExecutedSinceEntry
    /\ pc = "returned"

\* ----------------------------------------------------------------- C30

\* resume() was given a start step the pipeline does not declare, or one
\* that lies before the automatic start point of the context it was given.
InvalidStart ==
    /\ mode = "resume"
    /\ start_from # Null
    /\ \/ start_from \notin StepIds
       \/ /\ AutoStart(EntryCtx) # Null
          /\ IndexOf(start_from) < IndexOf(AutoStart(EntryCtx))

\* C30: resume() with an invalid start step fails with an error: it does
\* not return a run state, and it appends no step.started, step.failed or
\* step.succeeded.
C30_InvalidStartIsError ==
    InvalidStart =>
        /\ pc # "returned"
        /\ \A i \in (entry.len + 1)..Len(log) :
              log[i].event_type \notin
                  {"step.started", "step.failed", "step.succeeded"}

\* ----------------------------------------------------------------- C31

\* The last min(n, length) events of a sequence, in order.
LastEvents(events, n) ==
    LET k == IF n < Len(events) THEN n ELSE Len(events)
    IN  SubSeq(events, Len(events) - k + 1, Len(events))

\* C31: EventLog.tail(n) returns the last min(n, length) events of
\* read_all(), in insertion order; tail(0) is empty and the tail of an
\* empty log is empty.
C31_TailReturnsLastN ==
    [][(call' # call /\ call'.op = "tail") =>
          call'.result = LastEvents(read_all, call'.n)]_vars

\* ---------------------------------- a reader while the writer writes

\* Number of lines the writer of SpecReader appends.
MaxLines == 2

\* The events the writer of SpecReader appends.
WriterEvents ==
    {run_created, step_started(order[1], 0), step_succeeded(order[1], 0)}

\* EventLog.append hands line + '\n' to a buffered text file opened in
\* append mode and flushes it.  Neither append nor a reader takes a lock,
\* and nothing makes the bytes of one line reach the file indivisibly: a
\* reader that runs between WriteBegins and WriteEnds finds the complete
\* lines followed by the beginning of the new one.
WriteBegins ==
    /\ writing = <<>>
    /\ Len(log) < MaxLines
    /\ \E event \in WriterEvents : writing' = <<event>>
    /\ UNCHANGED <<steps, step_functions, log, ctx, pc, mode, idx, start_from,
                   entry, crashes, resumes, call>>

\* The rest of the line and its newline are in the file.
WriteEnds ==
    /\ writing # <<>>
    /\ append(writing[1])
    /\ writing' = <<>>
    /\ UNCHANGED <<steps, step_functions, ctx, pc, mode, idx, start_from,
                   entry, crashes, resumes, call>>

\* EventLog.stream: the handle yields the lines of the file as they are,
\* the unfinished one included.
CallStream ==
    /\ pc \notin InFlight
    /\ call' = [op |-> "stream", result |-> log,
                partial_line |-> writing # <<>>]
    /\ UNCHANGED <<writing, steps, step_functions, log, ctx, pc, mode, idx,
                   start_from, entry, crashes, resumes>>

NextReader ==
    \/ WriteBegins
    \/ WriteEnds
    \/ CallReadAll
    \/ CallTail
    \/ CallStream

SpecReader == InitCalls /\ [][NextReader]_vars

\* ----------------------------------------------------------------- C32

CrashFreeExecute ==
    /\ mode = "execute"
    /\ pc = "returned"
    /\ crashes = 0
    /\ resumes = 0
    /\ Cardinality(EventsOf("run.created", Null)) = 1

\* The number of step.retried events of a step.
Retries(s) == Cardinality(EventsOf("step.retried", s))

\* C33: for the log of a crash-free execute the summary reports
\* total_retries = the number of step.retried events, for every reported
\* step attempts = 1 + its number of retries, and total_attempts =
\* total_retries + the number of reported steps.
C33_SummaryAccounting ==
    (CrashFreeExecute /\ call.op = "summary" /\ call.result = generate) =>
        LET summary == call.result
        IN  /\ summary.total_retries =
                   Cardinality({i \in Positions :
                                   log[i].event_type = "step.retried"})
            /\ \A s \in DOMAIN summary.steps :
                   summary.steps[s].attempts = 1 + Retries(s)
            /\ summary.total_attempts =
                   summary.total_retries + Cardinality(DOMAIN summary.steps)

\* The summary of a finished crash-free execute with a retried step.
C33_Witness ==
    /\ CrashFreeExecute
    /\ call.op = "summary"
    /\ call.result = generate
    /\ call.result.total_retries > 0
    /\ Cardinality(DOMAIN call.result.steps) > 1

\* ----------------------------------------------------------------- C34

\* C34: the reserved vocabulary is never used: no step.compensated or
\* run.override_applied event is appended, no event carries an
\* override_reason, no run is ROLLED_BACK and no step is COMPENSATED.
C34_ReservedVocabularyUnused ==
    /\ \A i \in Positions :
           /\ log[i].event_type \notin
                  {"step.compensated", "run.override_applied"}
           /\ log[i].override_reason = Null
           /\ log[i].new_state \notin {"rolled_back", "compensated"}
    /\ ctx.run_state # "rolled_back"
    /\ \A s \in StepIds : ctx.step_states[s] # "compensated"

\* A run that failed on a hard gate was reconstructed and resumed to its
\* end: the places where compensation or a rollback would show.
C34_Witness ==
    /\ mode = "resume"
    /\ pc = "returned"
    /\ HardGateFailedInLog
    /\ \E i \in Positions :
           log[i].event_type = "run.completed" /\ log[i].new_state = "failed"

\* ------------------------------------------- a step without a callable

\* Pipelines whose steps retry on UNKNOWN as well, one step registered
\* without a callable.
InitMissing ==
    /\ steps \in [StepIds ->
                     [is_hard_gate : BOOLEAN, is_manual_gated : {FALSE},
                      max_retries : {MaxRetries},
                      retry_classes : {{"transient_io", "unknown"}}]]
    /\ step_functions \in {StepIds \ {s} : s \in StepIds}
    /\ log = <<>>
    /\ ctx = NoCtx
    /\ pc = "idle"
    /\ mode = Null
    /\ idx = 0
    /\ start_from = Null
    /\ entry = NoEntry
    /\ crashes = 0
    /\ resumes = 0
    /\ call = NoCall
    /\ writing = <<>>

SpecMissing == InitMissing /\ [][Next]_vars

\* ----------------------------------------------------------------- C35

\* C35: when no callable is registered for a step, execute_step appends
\* exactly one event, step.failed with class UNKNOWN and the step's current
\* attempt (no step.started, step.retried or gate.failed), marks the step
\* FAILED and returns failure to the walk without a retry, even if UNKNOWN
\* is in the step's retry_classes and max_retries > 0.
C35_MissingCallableFailsOnce ==
    [][(pc = "execute_step" /\ order[idx] \notin step_functions) =>
          LET s == order[idx]
          IN  /\ log' = Append(log, step_failed(s, "unknown",
                                                ctx.step_attempts[s]))
              /\ ctx'.step_states[s] = "failed"
              /\ ctx'.step_attempts[s] = ctx.step_attempts[s]
              /\ pc' \notin {"call", "retry", "gate_failed"}
              /\ pc' = "execute_step" => idx' > idx]_vars

\* A step without a callable, retriable on UNKNOWN with retries left, has
\* failed and the walk is past it.
C35_Witness ==
    /\ log # <<>>
    /\ LET last == log[Len(log)]
       IN  /\ last.event_type = "step.failed"
           /\ last.error_class = "unknown"
           /\ last.step_id \notin step_functions
           /\ "unknown" \in steps[last.step_id].retry_classes
           /\ last.attempt < steps[last.step_id].max_retries
           /\ ctx.step_states[last.step_id] = "failed"
           /\ pc \in {"execute_step", "complete_run"}

\* ----------------------------------------------------------------- C36

\* The run state the executor is about to request, if any.
Requested ==
    CASE pc = "started" -> "preflight_validated"
      [] pc \in {"execute_t2", "resume_t2"} -> "executing"
      [] pc = "reconstructed" /\ ctx.run_state = "created" ->
             "preflight_validated"
      [] pc = "reconstructed" /\
         ctx.run_state \in {"preflight_validated", "failed", "blocked"} ->
             "executing"
      [] pc = "fail_run" /\ ctx.run_state # "failed" -> "failed"
      [] pc = "complete_run" /\ ctx.run_state # "succeeded" -> "succeeded"
      [] OTHER -> Null

\* A step of the executor: no reconstruction, no interruption, and a context
\* that exists already.
ExecutorStep ==
    /\ resumes' = resumes
    /\ crashes' = crashes
    /\ ctx.run_state # Null

\* C36: the executor changes run_state only through the guarded transition
\* (an edge of the table, logged as run.state_changed); a requested
\* transition that is no edge raises, appends no event and leaves run_state
\* unchanged; SUCCEEDED and ROLLED_BACK have no outgoing edge.
C36_GuardedRunTransition ==
    [][/\ RunTRANSITIONS["succeeded"] = {}
       /\ RunTRANSITIONS["rolled_back"] = {}
       /\ ExecutorStep =>
            /\ ctx'.run_state # ctx.run_state =>
                  /\ RunCanTransition(ctx.run_state, ctx'.run_state)
                  /\ ctx'.run_state = Requested
                  /\ log' = Append(log, run_state_changed(ctx.run_state,
                                                          ctx'.run_state))
            /\ (/\ Requested # Null
                /\ ~RunCanTransition(ctx.run_state, Requested)) =>
                  /\ pc' = "error"
                  /\ log' = log
                  /\ ctx' = ctx]_vars

\* resume() asked for FAILED -> EXECUTING, which is no edge: it raised, and
\* the log ends with the run.completed of the failed run.
C36_Witness ==
    /\ pc = "error"
    /\ mode = "resume"
    /\ ctx.run_state = "failed"
    /\ log[Len(log)].event_type = "run.completed"
    /\ Len(log) = entry.len

\* ----------------------------------------------------------------- C37

\* The largest attempt the log carried for step s when resume() was entered.
AttemptAtEntry(s) ==
    LET at == {log[i].attempt : i \in {j \in 1..entry.len : log[j].step_id = s}}
    IN  IF at = {} THEN 0 ELSE CHOOSE a \in at : \A b \in at : b <= a

\* C37: retries accumulate across interruptions.  The first step.started a
\* resume issues for a step carries the largest attempt the log already
\* held for that step, and no step has more step.retried events than its
\* max_retries.
C37_RetriesAccumulate ==
    /\ \A s \in StepIds :
           Cardinality(EventsOf("step.retried", s)) <= steps[s].max_retries
    /\ mode = "resume" =>
           \A i \in StartedSinceEntry :
               (\A j \in StartedSinceEntry :
                    log[j].step_id = log[i].step_id => i <= j) =>
                   log[i].attempt = AttemptAtEntry(log[i].step_id)

\* A step was retried before the interruption and the resume issued it
\* with the attempt of that retry.
C37_Witness ==
    /\ mode = "resume"
    /\ \E i \in StartedSinceEntry :
           /\ log[i].attempt > 0
           /\ log[i].attempt = AttemptAtEntry(log[i].step_id)
           /\ \E k \in 1..entry.len : IsStep(k, "step.retried", log[i].step_id)

\* ----------------------------------------------------------------- C38

\* The first execute is running or has returned, and step s, which is no
\* hard gate, ended FAILED in it.
FailedSoftly(s) ==
    /\ mode = "execute"
    /\ ~steps[s].is_hard_gate
    /\ ctx.step_states[s] = "failed"

\* C38: once a step that is no hard gate ends FAILED during execute, every
\* step after it in DAG order is SKIPPED in memory, has no event in the log
\* (its callable was not invoked), and the run ends SUCCEEDED.
C38_SoftFailureSkipsRest ==
    \A s \in StepIds :
        FailedSoftly(s) =>
            /\ \A d \in get_downstream_steps(s) :
                  /\ ctx.step_states[d] = "skipped"
                  /\ \A i \in Positions : log[i].step_id # d
            /\ pc \in {"complete_run", "emit_completed", "returned"}
            /\ pc = "returned" =>
                  /\ ctx.run_state = "succeeded"
                  /\ log[Len(log)] = run_completed("succeeded")

\* execute has returned SUCCEEDED although its first step failed and the
\* two steps after it never ran.
C38_Witness ==
    /\ FailedSoftly(order[1])
    /\ order[1] \in step_functions
    /\ pc = "returned"
    /\ ctx.run_state = "succeeded"
    /\ ctx.step_states[order[2]] = "skipped"
    /\ ctx.step_states[order[3]] = "skipped"

\* ----------------------------------------------------------------- C39

\* C39: in every run context, live or reconstructed, across interruption
\* and resume, a step is in completed_steps if and only if its state is
\* SUCCEEDED, every step in failed_hard_gates is FAILED, and the two sets
\* are disjoint.
C39_ContextConsistency ==
    Live =>
        /\ \A s \in StepIds :
              s \in ctx.completed_steps <=> ctx.step_states[s] = "succeeded"
        /\ \A s \in ctx.failed_hard_gates : ctx.step_states[s] = "failed"
        /\ ctx.completed_steps \cap ctx.failed_hard_gates = {}

====
